---- MODULE Spec2Model ----
(***************************************************************************)
(* yais: the prefix registry (support_prefix / __MAPPING), the resolver    *)
(* get_image_data, the four extraction strategies and the guest-token      *)
(* cache of the twitter strategy, as a state machine.                      *)
(*                                                                         *)
(* A Python str is a sequence of one-character strings, so that            *)
(* str.startswith, iteration over a str and the regular expressions are    *)
(* computed on characters.  An Optional value is a record with a `none`    *)
(* flag.  Each process runs get_image_data step by step; a step boundary   *)
(* lies before every access to the file system or the network.             *)
(***************************************************************************)
EXTENDS Integers, Sequences, FiniteSets, TLC

VARIABLES
    MAPPING,         \* __MAPPING: insertion-ordered dict, a sequence of [prefix, f]
    regLog,          \* history: every assignment __MAPPING[p] = f, in order
    hasIterable,     \* whether collections.Iterable exists in the running Python
    fs,              \* the cache root on disk: function dirs and the guest_token file
    lastSaved,       \* history: the guest token most recently written to the file
    active,          \* the processes that run get_image_data
    urlsIn,          \* which URLs the callers pass: a label, see UrlsOf
    pc,              \* per process: position in get_image_data / the strategy
    url,             \* per process: get_image_data's url
    cache_dir,       \* per process: get_image_data's cache_dir (after line 198)
    f,               \* per process: the handler picked by the loop at line 199
    func_cache_dir,  \* per process: line 201
    guest_token,     \* per process: get_image_data_from_twitter's guest_token
    content,         \* per process: the page the strategy fetched (line 168 / 183)
    rv,              \* per process: the strategy's return value
    result,          \* per process: what get_image_data returned or raised
    consumed,        \* per process: what iterating a returned generator gave
    invoked,         \* history, per process: the strategies this call invoked
    ev               \* history, per process: file and network events of this call

vars == <<MAPPING, regLog, hasIterable, fs, lastSaved, active, urlsIn, pc, url,
          cache_dir, f, func_cache_dir, guest_token, content, rv, result,
          consumed, invoked, ev>>

\* ------------------------------------------------------------------ bounds

\* assignments __MAPPING[p] = f made by the registrations of RegSpec
MaxAssign == 3

\* ------------------------------------------------------------------ strings

CR == "\r"
LF == "\n"
Digits == {"0", "1", "2", "3", "4", "5", "6", "7", "8", "9"}

\* whether the characters s begin with the characters p
HasPrefix(s, p) == Len(p) <= Len(s) /\ SubSeq(s, 1, Len(p)) = p

\* the end (exclusive) of the run of digits that starts at position i
RECURSIVE DigitRunEnd(_, _)
DigitRunEnd(s, i) ==
    IF i <= Len(s) /\ s[i] \in Digits THEN DigitRunEnd(s, i + 1) ELSE i

\* os.path.basename: what follows the last "/"
RECURSIVE Basename(_)
Basename(s) ==
    IF s = <<>> THEN <<>>
    ELSE IF s[Len(s)] = "/" THEN <<>>
    ELSE Append(Basename(SubSeq(s, 1, Len(s) - 1)), s[Len(s)])

\* the first position >= i at which character c occurs in s, Len(s) + 1 if none
RECURSIVE Find(_, _, _)
Find(s, c, i) ==
    IF i > Len(s) THEN Len(s) + 1
    ELSE IF s[i] = c THEN i
    ELSE Find(s, c, i + 1)

\* urlparse(u).path for an absolute URL scheme://netloc/path?query#fragment
UrlPath(u) ==
    LET colon == Find(u, ":", 1)
        afterNet == IF colon + 2 <= Len(u) /\ u[colon + 1] = "/" /\ u[colon + 2] = "/"
                    THEN Find(u, "/", colon + 3)
                    ELSE colon + 1
        rest == SubSeq(u, afterNet, Len(u))
        cut == IF Find(rest, "?", 1) < Find(rest, "#", 1)
               THEN Find(rest, "?", 1) ELSE Find(rest, "#", 1)
    IN  SubSeq(rest, 1, cut - 1)

\* the characters of the percent escapes that occur in the modelled pages
HexPair(a, b) ==
    IF <<a, b>> = <<"2", "0">> THEN <<" ">>
    ELSE IF <<a, b>> = <<"2", "1">> THEN <<"!">>
    ELSE <<"%", a, b>>

\* urllib.parse.unquote
RECURSIVE unquote(_)
unquote(s) ==
    IF s = <<>> THEN <<>>
    ELSE IF s[1] = "%" /\ Len(s) >= 3
         THEN HexPair(s[2], s[3]) \o unquote(SubSeq(s, 4, Len(s)))
         ELSE <<s[1]>> \o unquote(Tail(s))

\* ------------------------------------------------------------------ values

None == [none |-> TRUE, s |-> <<>>]
Some(s) == [none |-> FALSE, s |-> s]
\* bool(x) of an Optional[str] or Optional[Path]
Truthy(x) == ~x.none /\ x.s # <<>>

\* dataclass Image
Image(u, filename, origin) == [url |-> u, filename |-> filename, origin |-> origin]

NoValue == [type |-> "none", items |-> <<>>]
AnImage(img) == [type |-> "Image", items |-> <<img>>]
AList(items) == [type |-> "list", items |-> items]
AGenerator == [type |-> "generator", items |-> <<>>]

NoExc == [type |-> "none", text |-> "", arg |-> <<>>]
Exc(type, text, arg) == [type |-> type, text |-> text, arg |-> arg]

NoResult == [kind |-> "none", value |-> NoValue, exc |-> NoExc]
Return(v) == [kind |-> "return", value |-> v, exc |-> NoExc]
Raise(e) == [kind |-> "raise", value |-> NoValue, exc |-> e]

Event(op, tok, ok) == [op |-> op, tok |-> tok, ok |-> ok]

\* ------------------------------------------------------------------ registry

twitter == "get_image_data_from_twitter"
pixiv == "get_image_data_from_pixiv"
moebooru == "get_image_data_from_moebooru"
zerochan == "get_image_data_from_zerochan"
Strategies == {twitter, pixiv, moebooru, zerochan}

\* A str that reaches the program from outside (a URL passed in, a registered
\* prefix, a URL found in a response) is held by name, a TLA+ string; Chars
\* gives its characters.  A one-character str is its own only character.
\* A str the program computes is held as its characters.
P_twitter == "https://twitter.com/"
P_pixiv_www == "https://www.pixiv.net"
P_pixiv == "https://pixiv.net"
P_konachan_net_s == "https://konachan.net/post/show/"
P_konachan_net == "http://konachan.net/post/show/"
P_konachan_com_s == "https://konachan.com/post/show/"
P_konachan_com == "http://konachan.com/post/show/"
P_yandere == "https://yande.re/post/show/"
P_zerochan == "https://www.zerochan.net/"
U_tweet == "https://twitter.com/u/status/1"
U_twitter_user == "https://twitter.com/u"
U_pixiv_www == "https://www.pixiv.net/a/77005971"
U_pixiv == "https://pixiv.net/a/77005971"
U_pixiv_short == "https://pixiv.net/a/123"
U_konachan_net_s == "https://konachan.net/post/show/1"
U_konachan_net == "http://konachan.net/post/show/1"
U_konachan_com_s == "https://konachan.com/post/show/1"
U_konachan_com == "http://konachan.com/post/show/1"
U_yandere == "https://yande.re/post/show/1"
U_zerochan == "https://www.zerochan.net/1"
U_example == "http://ex.com/"
U_ftp == "ftp://ex.com/"
U_konachan_post == "https://konachan.net/post"
M1 == "https://p/A.jpg"
M2 == "https://p/B.jpg?x"
PX1 == "https://i/7_p0.jpg"
PX2 == "https://i/7_p1.jpg"
H1 == "https://f/a%20b.jpg"
H2 == "https://f/c%21.jpg"

Chars(s) ==
    CASE s = "" -> <<>>
      [] s = "https://twitter.com/" ->
            <<"h", "t", "t", "p", "s", ":", "/", "/", "t", "w", "i", "t",
            "t", "e", "r", ".", "c", "o", "m", "/">>
      [] s = "https://www.pixiv.net" ->
            <<"h", "t", "t", "p", "s", ":", "/", "/", "w", "w", "w", ".",
            "p", "i", "x", "i", "v", ".", "n", "e", "t">>
      [] s = "https://pixiv.net" ->
            <<"h", "t", "t", "p", "s", ":", "/", "/", "p", "i", "x", "i",
            "v", ".", "n", "e", "t">>
      [] s = "https://konachan.net/post/show/" ->
            <<"h", "t", "t", "p", "s", ":", "/", "/", "k", "o", "n", "a",
            "c", "h", "a", "n", ".", "n", "e", "t", "/", "p", "o", "s", "t",
            "/", "s", "h", "o", "w", "/">>
      [] s = "http://konachan.net/post/show/" ->
            <<"h", "t", "t", "p", ":", "/", "/", "k", "o", "n", "a", "c",
            "h", "a", "n", ".", "n", "e", "t", "/", "p", "o", "s", "t", "/",
            "s", "h", "o", "w", "/">>
      [] s = "https://konachan.com/post/show/" ->
            <<"h", "t", "t", "p", "s", ":", "/", "/", "k", "o", "n", "a",
            "c", "h", "a", "n", ".", "c", "o", "m", "/", "p", "o", "s", "t",
            "/", "s", "h", "o", "w", "/">>
      [] s = "http://konachan.com/post/show/" ->
            <<"h", "t", "t", "p", ":", "/", "/", "k", "o", "n", "a", "c",
            "h", "a", "n", ".", "c", "o", "m", "/", "p", "o", "s", "t", "/",
            "s", "h", "o", "w", "/">>
      [] s = "https://yande.re/post/show/" ->
            <<"h", "t", "t", "p", "s", ":", "/", "/", "y", "a", "n", "d",
            "e", ".", "r", "e", "/", "p", "o", "s", "t", "/", "s", "h", "o",
            "w", "/">>
      [] s = "https://www.zerochan.net/" ->
            <<"h", "t", "t", "p", "s", ":", "/", "/", "w", "w", "w", ".",
            "z", "e", "r", "o", "c", "h", "a", "n", ".", "n", "e", "t",
            "/">>
      [] s = "https://twitter.com/u/status/1" ->
            <<"h", "t", "t", "p", "s", ":", "/", "/", "t", "w", "i", "t",
            "t", "e", "r", ".", "c", "o", "m", "/", "u", "/", "s", "t", "a",
            "t", "u", "s", "/", "1">>
      [] s = "https://twitter.com/u" ->
            <<"h", "t", "t", "p", "s", ":", "/", "/", "t", "w", "i", "t",
            "t", "e", "r", ".", "c", "o", "m", "/", "u">>
      [] s = "https://www.pixiv.net/a/77005971" ->
            <<"h", "t", "t", "p", "s", ":", "/", "/", "w", "w", "w", ".",
            "p", "i", "x", "i", "v", ".", "n", "e", "t", "/", "a", "/", "7",
            "7", "0", "0", "5", "9", "7", "1">>
      [] s = "https://pixiv.net/a/77005971" ->
            <<"h", "t", "t", "p", "s", ":", "/", "/", "p", "i", "x", "i",
            "v", ".", "n", "e", "t", "/", "a", "/", "7", "7", "0", "0", "5",
            "9", "7", "1">>
      [] s = "https://pixiv.net/a/123" ->
            <<"h", "t", "t", "p", "s", ":", "/", "/", "p", "i", "x", "i",
            "v", ".", "n", "e", "t", "/", "a", "/", "1", "2", "3">>
      [] s = "https://konachan.net/post/show/1" ->
            <<"h", "t", "t", "p", "s", ":", "/", "/", "k", "o", "n", "a",
            "c", "h", "a", "n", ".", "n", "e", "t", "/", "p", "o", "s", "t",
            "/", "s", "h", "o", "w", "/", "1">>
      [] s = "http://konachan.net/post/show/1" ->
            <<"h", "t", "t", "p", ":", "/", "/", "k", "o", "n", "a", "c",
            "h", "a", "n", ".", "n", "e", "t", "/", "p", "o", "s", "t", "/",
            "s", "h", "o", "w", "/", "1">>
      [] s = "https://konachan.com/post/show/1" ->
            <<"h", "t", "t", "p", "s", ":", "/", "/", "k", "o", "n", "a",
            "c", "h", "a", "n", ".", "c", "o", "m", "/", "p", "o", "s", "t",
            "/", "s", "h", "o", "w", "/", "1">>
      [] s = "http://konachan.com/post/show/1" ->
            <<"h", "t", "t", "p", ":", "/", "/", "k", "o", "n", "a", "c",
            "h", "a", "n", ".", "c", "o", "m", "/", "p", "o", "s", "t", "/",
            "s", "h", "o", "w", "/", "1">>
      [] s = "https://yande.re/post/show/1" ->
            <<"h", "t", "t", "p", "s", ":", "/", "/", "y", "a", "n", "d",
            "e", ".", "r", "e", "/", "p", "o", "s", "t", "/", "s", "h", "o",
            "w", "/", "1">>
      [] s = "https://www.zerochan.net/1" ->
            <<"h", "t", "t", "p", "s", ":", "/", "/", "w", "w", "w", ".",
            "z", "e", "r", "o", "c", "h", "a", "n", ".", "n", "e", "t", "/",
            "1">>
      [] s = "http://ex.com/" ->
            <<"h", "t", "t", "p", ":", "/", "/", "e", "x", ".", "c", "o",
            "m", "/">>
      [] s = "ftp://ex.com/" ->
            <<"f", "t", "p", ":", "/", "/", "e", "x", ".", "c", "o", "m",
            "/">>
      [] s = "https://konachan.net/post" ->
            <<"h", "t", "t", "p", "s", ":", "/", "/", "k", "o", "n", "a",
            "c", "h", "a", "n", ".", "n", "e", "t", "/", "p", "o", "s",
            "t">>
      [] s = "https://p/A.jpg" ->
            <<"h", "t", "t", "p", "s", ":", "/", "/", "p", "/", "A", ".",
            "j", "p", "g">>
      [] s = "https://p/B.jpg?x" ->
            <<"h", "t", "t", "p", "s", ":", "/", "/", "p", "/", "B", ".",
            "j", "p", "g", "?", "x">>
      [] s = "https://i/7_p0.jpg" ->
            <<"h", "t", "t", "p", "s", ":", "/", "/", "i", "/", "7", "_",
            "p", "0", ".", "j", "p", "g">>
      [] s = "https://i/7_p1.jpg" ->
            <<"h", "t", "t", "p", "s", ":", "/", "/", "i", "/", "7", "_",
            "p", "1", ".", "j", "p", "g">>
      [] s = "https://f/a%20b.jpg" ->
            <<"h", "t", "t", "p", "s", ":", "/", "/", "f", "/", "a", "%",
            "2", "0", "b", ".", "j", "p", "g">>
      [] s = "https://f/c%21.jpg" ->
            <<"h", "t", "t", "p", "s", ":", "/", "/", "f", "/", "c", "%",
            "2", "1", ".", "j", "p", "g">>
      [] s = "ab" ->
            <<"a", "b">>
      [] s = "ba" ->
            <<"b", "a">>
      [] OTHER -> <<s>>

\* url.startswith(prefix)
StartsWith(u, prefix) == HasPrefix(Chars(u), Chars(prefix))

\* the argument of support_prefix: a tuple of str, or a single str
TupleArg(items) == [kind |-> "tuple", items |-> items]
StrArg(s) == [kind |-> "str", items |-> <<s>>]

\* `for p in prefixes`: a tuple gives its elements, a str gives its characters
Iterate(arg) ==
    IF arg.kind = "str"
    THEN Chars(arg.items[1])
    ELSE arg.items

DictSetKeepsFirst(m, k, v) ==
    IF \E i \in 1..Len(m) : m[i].prefix = k THEN m
    ELSE Append(m, [prefix |-> k, f |-> v])

\* __MAPPING[p] = f: a new key goes last, a key already present keeps its place
\* and takes the new value
DictSet(m, k, v) ==
    IF \E i \in 1..Len(m) : m[i].prefix = k
    THEN [i \in 1..Len(m) |-> IF m[i].prefix = k THEN [prefix |-> k, f |-> v] ELSE m[i]]
    ELSE Append(m, [prefix |-> k, f |-> v])

RECURSIVE AssignAll(_, _, _)
AssignAll(m, ps, h) ==
    IF ps = <<>> THEN m ELSE AssignAll(DictSet(m, Head(ps), h), Tail(ps), h)

\* support_prefix(prefixes)(f) applied to the dict m
support_prefix(m, prefixes, h) == AssignAll(m, Iterate(prefixes), h)

\* __MAPPING once the module is imported: the four decorators in source order
ModuleMapping ==
    LET m1 == support_prefix(<<>>, TupleArg(<<P_twitter>>), twitter)
        m2 == support_prefix(m1, TupleArg(<<P_pixiv_www, P_pixiv>>), pixiv)
        m3 == support_prefix(m2, TupleArg(<<P_konachan_net_s, P_konachan_net,
                                            P_konachan_com_s, P_konachan_com,
                                            P_yandere>>), moebooru)
    IN  support_prefix(m3, StrArg(P_zerochan), zerochan)

LookupLast(m, u) ==
    IF \E i \in 1..Len(m) : StartsWith(u, m[i].prefix)
    THEN CHOOSE i \in 1..Len(m) :
            /\ StartsWith(u, m[i].prefix)
            /\ \A j \in (i + 1)..Len(m) : ~StartsWith(u, m[j].prefix)
    ELSE 0

\* the loop of get_image_data: the index of the first item whose prefix the
\* url starts with, 0 when the loop ends without a match
Lookup(m, u) ==
    IF \E i \in 1..Len(m) : StartsWith(u, m[i].prefix)
    THEN CHOOSE i \in 1..Len(m) :
            /\ StartsWith(u, m[i].prefix)
            /\ \A j \in 1..(i - 1) : ~StartsWith(u, m[j].prefix)
    ELSE 0

\* ------------------------------------------------------------------ strategies

\* tweet_id_re.search(url): the first "status/" followed by a digit; group(1)
\* is the run of digits after it
S_status == <<"s", "t", "a", "t", "u", "s", "/">>

RECURSIVE SearchTweetId(_, _)
SearchTweetId(u, i) ==
    IF i + Len(S_status) > Len(u) THEN None
    ELSE IF /\ SubSeq(u, i, i + Len(S_status) - 1) = S_status
            /\ u[i + Len(S_status)] \in Digits
         THEN Some(SubSeq(u, i + Len(S_status), DigitRunEnd(u, i + Len(S_status)) - 1))
         ELSE SearchTweetId(u, i + 1)

tweet_id_re(u) == SearchTweetId(Chars(u), 1)

\* pixiv_id_re.findall(url): the runs of at least 7 digits, from the left
PixivIdLen == 7

RECURSIVE FindAllIds(_, _)
FindAllIds(u, i) ==
    IF i > Len(u) THEN <<>>
    ELSE IF u[i] \in Digits
         THEN LET e == DigitRunEnd(u, i)
              IN  IF e - i >= PixivIdLen
                  THEN <<SubSeq(u, i, e - 1)>> \o FindAllIds(u, e)
                  ELSE FindAllIds(u, e)
         ELSE FindAllIds(u, i + 1)

pixiv_id_re(u) == FindAllIds(Chars(u), 1)

S_orig == <<":", "o", "r", "i", "g">>

TwitterImageOriginMedia(media_url_https, u) ==
    Image(Chars(media_url_https) \o S_orig,
          Basename(UrlPath(Chars(media_url_https))), media_url_https)

\* one element of the list built by _try_download_with_guest_token
TwitterImage(media_url_https, u) ==
    Image(Chars(media_url_https) \o S_orig,
          Basename(UrlPath(Chars(media_url_https))), u)

\* the Image yielded by get_image_data_from_pixiv for one page
PixivImage(original, u) == Image(Chars(original), Basename(Chars(original)), u)

\* the Image returned by get_image_data_from_moebooru
MoebooruImage(img_url, u) ==
    Image(Chars(img_url), unquote(Basename(Chars(img_url))), u)

\* the Image returned by get_image_data_from_zerochan
ZerochanImage(img_url, u) ==
    Image(Chars(img_url), unquote(Basename(Chars(img_url))), u)

RECURSIVE MapImages(_, _, _)
MapImages(kind, ms, u) ==
    IF ms = <<>> THEN <<>>
    ELSE <<IF kind = twitter THEN TwitterImage(Head(ms), u) ELSE PixivImage(Head(ms), u)>>
         \o MapImages(kind, Tail(ms), u)

\* ---- what the network answers (the sites are outside the program)

\* the conversation API: an answer that lacks the media path (an error body, a
\* rejected token, a tweet without media, no connection), or the media list
ApiAnswers ==
    {[ok |-> FALSE, media |-> <<>>]}
    \cup {[ok |-> TRUE, media |-> m] : m \in {<<M1>>, <<M1, M2>>}}

\* guest/activate.json: a new guest token, or a failure
FreshTokens == {<<"1">>, <<"2">>, <<"2", CR>>}
ActivateAnswers == {None} \cup {Some(t) : t \in FreshTokens}

\* the pixiv pages API
PagesAnswers ==
    {[ok |-> FALSE, media |-> <<>>]}
    \cup {[ok |-> TRUE, media |-> m] : m \in {<<>>, <<PX1>>, <<PX1, PX2>>}}

\* a fetched moebooru post page, as BeautifulSoup and _post_register_re see it:
\* the a.highres-show element (none, without href, with href) and the
\* Post.register(...) script (none, not JSON, JSON without file_url, with file_url)
MoebooruPages ==
    [fetched : {TRUE}, anchor : {"none", "nohref", "href"}, href : {H1},
     register : {"none", "badjson", "nofileurl", "file_url"}, file_url : {H2}]
    \cup [fetched : {FALSE}, anchor : {"none"}, href : {H1},
          register : {"none"}, file_url : {H2}]

\* a fetched zerochan page: the a.preview element
ZerochanPages ==
    [fetched : {TRUE}, anchor : {"none", "nohref", "href"}, href : {H2},
     register : {"none"}, file_url : {H2}]
    \cup [fetched : {FALSE}, anchor : {"none"}, href : {H2},
          register : {"none"}, file_url : {H2}]

NoPage == [fetched |-> FALSE, anchor |-> "none", href |-> "",
           register |-> "none", file_url |-> ""]

\* ------------------------------------------------------------------ files

\* os.linesep (POSIX)
linesep == <<LF>>

\* what open(path, "w").write(s) puts in the file: "\n" becomes os.linesep
RECURSIVE TextWrite(_)
TextWrite(s) ==
    IF s = <<>> THEN <<>>
    ELSE (IF s[1] = LF THEN linesep ELSE <<s[1]>>) \o TextWrite(Tail(s))

\* what open(path).read() gives: universal newlines, "\r\n" and "\r" become "\n"
RECURSIVE TextRead(_)
TextRead(d) ==
    IF d = <<>> THEN <<>>
    ELSE IF d[1] = CR
         THEN <<LF>> \o TextRead(IF Len(d) >= 2 /\ d[2] = LF
                                 THEN SubSeq(d, 3, Len(d)) ELSE Tail(d))
         ELSE <<d[1]>> \o TextRead(Tail(d))

\* the guest_token file: kind (absent, file, dir), whether open() for reading
\* and for writing (or creating) succeeds, and its content
TokFile(kind, r, w, data) == [kind |-> kind, r |-> r, w |-> w, data |-> data]
AbsentTok == TokFile("absent", FALSE, TRUE, <<>>)

\* read_twitter_guest_token_from_cache: any failure of open/read gives None
read_twitter_guest_token_from_cache(tok) ==
    IF tok.kind = "file" /\ tok.r THEN Some(TextRead(tok.data)) ELSE None

\* whether open(cache / "guest_token", "w") succeeds
CanOpenW(tok) == tok.kind \in {"file", "absent"} /\ tok.w

OpenWithoutTruncate(tok) ==
    TokFile("file", IF tok.kind = "absent" THEN TRUE ELSE tok.r, tok.w, tok.data)

\* open(..., "w"): creates the file or truncates it
OpenW(tok) ==
    TokFile("file", IF tok.kind = "absent" THEN TRUE ELSE tok.r, tok.w, <<>>)

\* f.write(guest_token) and close: the text goes to offset 0 of the file
WriteAt0(tok, s) ==
    [tok EXCEPT !.data = TextWrite(s)
                         \o SubSeq(tok.data, Len(TextWrite(s)) + 1, Len(tok.data))]

\* a Path is the sequence of its components
Root == <<"/c">>
\* cache_dir / f.__name__
FuncDir(cd, name) == Append(cd, name)

\* ------------------------------------------------------------------ state

Procs == {1, 2}

\* the URLs passed to get_image_data
Urls ==
    {U_tweet, U_twitter_user, U_pixiv_www, U_pixiv, U_pixiv_short, U_konachan_net_s,
     U_konachan_net, U_konachan_com_s, U_konachan_com, U_yandere, U_zerochan,
     U_example, U_ftp, U_konachan_post}

\* get_image_data's callers test the registry with short URLs and the twitter
\* strategy with tweets
RegUrls == {"a", "ab", "b", "ba", "c"}
UrlsOf(label) ==
    IF label = "all" THEN Urls
    ELSE IF label = "twitter" THEN {U_tweet}
    ELSE RegUrls

\* the cache_dir argument: None, a str or a Path
CacheArgs == {"None", "str", "Path"}

\* lines 197-198: a str becomes a Path
NormCache(arg) == IF arg = "None" THEN None ELSE Some(Root)

\* the content a guest_token file may have when the program starts
FileData == {<<>>, <<"1">>, <<"7", "7">>, <<"7", CR, LF>>}

\* the states of the cache root the program may find
InitFs ==
    {[dirs |-> {}, usable |-> u, tok |-> AbsentTok] : u \in BOOLEAN}
    \cup {[dirs |-> {FuncDir(Root, twitter)}, usable |-> TRUE, tok |-> t] :
            t \in {AbsentTok, TokFile("absent", FALSE, FALSE, <<>>),
                   TokFile("dir", FALSE, FALSE, <<>>)}
                  \cup {TokFile("file", r, w, d) :
                          r \in BOOLEAN, w \in BOOLEAN, d \in FileData}}

InitWith(mapping, procs, urls, fss, iterables) ==
    /\ MAPPING = mapping
    /\ regLog = <<>>
    /\ hasIterable \in iterables
    /\ fs \in fss
    /\ lastSaved = None
    /\ active = procs
    /\ urlsIn = urls
    /\ pc = [p \in Procs |-> "idle"]
    /\ url = [p \in Procs |-> ""]
    /\ cache_dir = [p \in Procs |-> None]
    /\ f = [p \in Procs |-> ""]
    /\ func_cache_dir = [p \in Procs |-> None]
    /\ guest_token = [p \in Procs |-> None]
    /\ content = [p \in Procs |-> NoPage]
    /\ rv = [p \in Procs |-> NoValue]
    /\ result = [p \in Procs |-> NoResult]
    /\ consumed = [p \in Procs |-> NoResult]
    /\ invoked = [p \in Procs |-> <<>>]
    /\ ev = [p \in Procs |-> <<>>]

\* one process, the registry as the module builds it
Init == InitWith(ModuleMapping, {1}, "all", InitFs, BOOLEAN)

globals == <<MAPPING, regLog, hasIterable, active, urlsIn>>

\* the call ends by raising e
Raises(p, e) ==
    /\ result' = [result EXCEPT ![p] = Raise(e)]
    /\ pc' = [pc EXCEPT ![p] = "done"]

Goto(p, label) == pc' = [pc EXCEPT ![p] = label]

Log(p, e) == ev' = [ev EXCEPT ![p] = Append(@, e)]

\* ------------------------------------------------------------------ get_image_data

\* the caller calls get_image_data(u, arg): lines 197-201 and 209
Call(p) ==
    /\ p \in active
    /\ pc[p] = "idle"
    /\ \E u \in UrlsOf(urlsIn), arg \in CacheArgs :
        LET i == Lookup(MAPPING, u)
            cd == NormCache(arg)
        IN  /\ url' = [url EXCEPT ![p] = u]
            /\ cache_dir' = [cache_dir EXCEPT ![p] = cd]
            /\ IF i = 0
               THEN /\ Raises(p, Exc("ValueError", "Unsupported url: ", <<u>>))
                    /\ UNCHANGED <<f, func_cache_dir>>
               ELSE /\ f' = [f EXCEPT ![p] = MAPPING[i].f]
                    /\ func_cache_dir' =
                          [func_cache_dir EXCEPT ![p] =
                              IF cd.none THEN None ELSE Some(FuncDir(cd.s, MAPPING[i].f))]
                    /\ Goto(p, "exists")
                    /\ UNCHANGED result
    /\ UNCHANGED <<globals, fs, lastSaved, guest_token, content, rv, consumed,
                   invoked, ev>>

\* line 202: func_cache_dir and not func_cache_dir.exists()
Exists(p) ==
    /\ pc[p] = "exists"
    /\ IF ~func_cache_dir[p].none /\ func_cache_dir[p].s \notin fs.dirs
       THEN Goto(p, "mkdir")
       ELSE Goto(p, "invoke")
    /\ UNCHANGED <<globals, fs, lastSaved, url, cache_dir, f, func_cache_dir,
                   guest_token, content, rv, result, consumed, invoked, ev>>

\* line 203: func_cache_dir.mkdir(parents=True), which raises when the directory
\* exists by now or cannot be created
Mkdir(p) ==
    /\ pc[p] = "mkdir"
    /\ IF func_cache_dir[p].s \in fs.dirs
       THEN /\ Raises(p, Exc("FileExistsError", "mkdir", func_cache_dir[p].s))
            /\ UNCHANGED fs
       ELSE IF ~fs.usable
       THEN /\ Raises(p, Exc("OSError", "mkdir", func_cache_dir[p].s))
            /\ UNCHANGED fs
       ELSE /\ fs' = [fs EXCEPT !.dirs = @ \cup {func_cache_dir[p].s}]
            /\ Goto(p, "invoke")
            /\ UNCHANGED result
    /\ UNCHANGED <<globals, lastSaved, url, cache_dir, f, func_cache_dir,
                   guest_token, content, rv, consumed, invoked, ev>>

NormalizeKeep(v) == v

\* lines 205-207: an iterable is returned as it is, anything else in a list
Normalize(v) ==
    IF v.type \in {"list", "generator"} THEN v ELSE AList(v.items)

\* lines 205-207, where collections.Iterable is looked up
Normalized(p) ==
    /\ pc[p] = "normalize"
    /\ IF hasIterable
       THEN /\ result' = [result EXCEPT ![p] = Return(Normalize(rv[p]))]
            /\ Goto(p, "done")
       ELSE Raises(p, Exc("AttributeError", "collections.Iterable", <<>>))
    /\ UNCHANGED <<globals, fs, lastSaved, url, cache_dir, f, func_cache_dir,
                   guest_token, content, rv, consumed, invoked, ev>>

\* the caller takes the result; the process is ready for its next call
Finish(p) ==
    /\ pc[p] = "done"
    /\ pc' = [pc EXCEPT ![p] = "idle"]
    /\ url' = [url EXCEPT ![p] = ""]
    /\ cache_dir' = [cache_dir EXCEPT ![p] = None]
    /\ f' = [f EXCEPT ![p] = ""]
    /\ func_cache_dir' = [func_cache_dir EXCEPT ![p] = None]
    /\ guest_token' = [guest_token EXCEPT ![p] = None]
    /\ content' = [content EXCEPT ![p] = NoPage]
    /\ rv' = [rv EXCEPT ![p] = NoValue]
    /\ result' = [result EXCEPT ![p] = NoResult]
    /\ consumed' = [consumed EXCEPT ![p] = NoResult]
    /\ invoked' = [invoked EXCEPT ![p] = <<>>]
    /\ ev' = [ev EXCEPT ![p] = <<>>]
    /\ UNCHANGED <<globals, fs, lastSaved>>

\* the strategy f returned or raised `out`
Outcome(p, out) ==
    IF out.kind = "return"
    THEN /\ rv' = [rv EXCEPT ![p] = out.value]
         /\ Goto(p, "normalize")
         /\ UNCHANGED result
    ELSE /\ Raises(p, out.exc)
         /\ UNCHANGED rv

Invoking(p, name) ==
    /\ pc[p] = "invoke"
    /\ f[p] = name
    /\ invoked' = [invoked EXCEPT ![p] = Append(@, name)]

\* ------------------------------------------------------------------ twitter

\* line 204 with f = get_image_data_from_twitter, lines 95-98 and 123
InvokeTwitter(p) ==
    /\ Invoking(p, twitter)
    /\ IF tweet_id_re(url[p]).none
       THEN Raises(p, Exc("ValueError", "Can't find tweet id", <<>>))
       ELSE /\ Goto(p, IF Truthy(func_cache_dir[p]) THEN "tw_read" ELSE "tw_token")
            /\ UNCHANGED result
    /\ UNCHANGED <<globals, fs, lastSaved, url, cache_dir, f, func_cache_dir,
                   guest_token, content, rv, consumed, ev>>

CachedTokenUsableAlways(t) == TRUE

\* line 125: `if guest_token`
CachedTokenUsable(t) == Truthy(t)

\* lines 124-125
TwRead(p) ==
    /\ pc[p] = "tw_read"
    /\ LET t == read_twitter_guest_token_from_cache(fs.tok)
       IN  /\ guest_token' = [guest_token EXCEPT ![p] = t]
           /\ Log(p, Event("read", t.s, ~t.none))
           /\ Goto(p, IF CachedTokenUsable(t) THEN "tw_cached" ELSE "tw_token")
    /\ UNCHANGED <<globals, fs, lastSaved, url, cache_dir, f, func_cache_dir,
                   content, rv, result, consumed, invoked>>

\* lines 127-130: _try_download_with_guest_token with the cached token; whatever
\* it raises is swallowed
TwCached(p) ==
    /\ pc[p] = "tw_cached"
    /\ \E a \in ApiAnswers :
        /\ Log(p, Event("api_cached", guest_token[p].s, a.ok))
        /\ IF a.ok
           THEN /\ rv' = [rv EXCEPT ![p] = AList(MapImages(twitter, a.media, url[p]))]
                /\ Goto(p, "normalize")
           ELSE /\ Goto(p, "tw_token")
                /\ UNCHANGED rv
    /\ UNCHANGED <<globals, fs, lastSaved, url, cache_dir, f, func_cache_dir,
                   guest_token, content, result, consumed, invoked>>

\* line 131: get_guest_token()
TwToken(p) ==
    /\ pc[p] = "tw_token"
    /\ \E a \in ActivateAnswers :
        /\ Log(p, Event("token", a.s, ~a.none))
        /\ IF a.none
           THEN /\ Raises(p, Exc("Exception", "get_guest_token", <<>>))
                /\ UNCHANGED guest_token
           ELSE /\ guest_token' = [guest_token EXCEPT ![p] = a]
                /\ Goto(p, "tw_fresh")
                /\ UNCHANGED result
    /\ UNCHANGED <<globals, fs, lastSaved, url, cache_dir, f, func_cache_dir,
                   content, rv, consumed, invoked>>

\* lines 133-134: _try_download_with_guest_token with the new token
TwFresh(p) ==
    /\ pc[p] = "tw_fresh"
    /\ \E a \in ApiAnswers :
        /\ Log(p, Event("api_fresh", guest_token[p].s, a.ok))
        /\ IF a.ok
           THEN /\ rv' = [rv EXCEPT ![p] = AList(MapImages(twitter, a.media, url[p]))]
                /\ Goto(p, IF Truthy(func_cache_dir[p]) THEN "tw_save" ELSE "normalize")
                /\ UNCHANGED result
           ELSE /\ Raises(p, Exc("KeyError", "_try_download_with_guest_token", <<>>))
                /\ UNCHANGED rv
    /\ UNCHANGED <<globals, fs, lastSaved, url, cache_dir, f, func_cache_dir,
                   guest_token, content, consumed, invoked>>

\* line 88: open(cache / "guest_token", "w")
TwSave(p) ==
    /\ pc[p] = "tw_save"
    /\ Log(p, Event("open", guest_token[p].s, CanOpenW(fs.tok)))
    /\ IF CanOpenW(fs.tok)
       THEN /\ fs' = [fs EXCEPT !.tok = OpenW(fs.tok)]
            /\ Goto(p, "tw_write")
            /\ UNCHANGED result
       ELSE /\ Raises(p, Exc("OSError", "open", func_cache_dir[p].s))
            /\ UNCHANGED fs
    /\ UNCHANGED <<globals, lastSaved, url, cache_dir, f, func_cache_dir,
                   guest_token, content, rv, consumed, invoked>>

\* line 89 and the close of the file; line 136
TwWrite(p) ==
    /\ pc[p] = "tw_write"
    /\ fs' = [fs EXCEPT !.tok = WriteAt0(fs.tok, guest_token[p].s)]
    /\ lastSaved' = guest_token[p]
    /\ Log(p, Event("write", guest_token[p].s, TRUE))
    /\ Goto(p, "normalize")
    /\ UNCHANGED <<globals, url, cache_dir, f, func_cache_dir,
                   guest_token, content, rv, result, consumed, invoked>>

\* ------------------------------------------------------------------ pixiv

\* line 204 with f = get_image_data_from_pixiv: a generator function, whose
\* call runs none of its body
InvokePixiv(p) ==
    /\ Invoking(p, pixiv)
    /\ Outcome(p, Return(AGenerator))
    /\ UNCHANGED <<globals, fs, lastSaved, url, cache_dir, f, func_cache_dir,
                   guest_token, content, consumed, ev>>

\* the caller iterates the generator: lines 144-152
Consume(p) ==
    /\ pc[p] = "done"
    /\ result[p].kind = "return"
    /\ result[p].value.type = "generator"
    /\ consumed[p].kind = "none"
    /\ IF pixiv_id_re(url[p]) = <<>>
       THEN /\ consumed' = [consumed EXCEPT ![p] =
                               Raise(Exc("IndexError", "pixiv_id_re", <<>>))]
            /\ UNCHANGED ev
       ELSE \E a \in PagesAnswers :
            /\ Log(p, Event("get", pixiv_id_re(url[p])[1], a.ok))
            /\ consumed' = [consumed EXCEPT ![p] =
                  IF a.ok THEN Return(AList(MapImages(pixiv, a.media, url[p])))
                  ELSE Raise(Exc("KeyError", "pages", <<>>))]
    /\ UNCHANGED <<globals, fs, lastSaved, pc, url, cache_dir, f, func_cache_dir,
                   guest_token, content, rv, result, invoked>>

\* ------------------------------------------------------------------ moebooru

\* lines 169-178 on a fetched page
get_image_data_from_moebooru(page, u) ==
    IF page.anchor = "href"
    THEN Return(AnImage(MoebooruImage(page.href, u)))
    ELSE IF page.anchor = "nohref"
    THEN Raise(Exc("KeyError", "href", <<>>))
    ELSE IF page.register = "none"
    THEN Raise(Exc("Exception", "Can't find img_url from ", <<u>>))
    ELSE IF page.register = "badjson"
    THEN Raise(Exc("JSONDecodeError", "json.loads", <<>>))
    ELSE IF page.register = "nofileurl"
    THEN Raise(Exc("KeyError", "file_url", <<>>))
    ELSE Return(AnImage(MoebooruImage(page.file_url, u)))

\* line 204 with f = get_image_data_from_moebooru
InvokeMoebooru(p) ==
    /\ Invoking(p, moebooru)
    /\ \E page \in MoebooruPages :
        /\ Log(p, Event("get", <<url[p]>>, page.fetched))
        /\ content' = [content EXCEPT ![p] = page]
        /\ Outcome(p, IF page.fetched
                      THEN get_image_data_from_moebooru(page, url[p])
                      ELSE Raise(Exc("ConnectionError", "requests.get", <<url[p]>>)))
    /\ UNCHANGED <<globals, fs, lastSaved, url, cache_dir, f, func_cache_dir,
                   guest_token, consumed>>

\* ------------------------------------------------------------------ zerochan

\* lines 184-186 on a fetched page
get_image_data_from_zerochan(page, u) ==
    IF page.anchor = "href"
    THEN Return(AnImage(ZerochanImage(page.href, u)))
    ELSE IF page.anchor = "nohref"
    THEN Raise(Exc("KeyError", "href", <<>>))
    ELSE Raise(Exc("TypeError", "NoneType", <<>>))

\* line 204 with f = get_image_data_from_zerochan
InvokeZerochan(p) ==
    /\ Invoking(p, zerochan)
    /\ \E page \in ZerochanPages :
        /\ Log(p, Event("get", <<url[p]>>, page.fetched))
        /\ content' = [content EXCEPT ![p] = page]
        /\ Outcome(p, IF page.fetched
                      THEN get_image_data_from_zerochan(page, url[p])
                      ELSE Raise(Exc("ConnectionError", "requests.get", <<url[p]>>)))
    /\ UNCHANGED <<globals, fs, lastSaved, url, cache_dir, f, func_cache_dir,
                   guest_token, consumed>>

\* ------------------------------------------------------------------ specifications

Next ==
    \E p \in Procs :
        \/ Call(p)
        \/ Exists(p)
        \/ Mkdir(p)
        \/ InvokeTwitter(p)
        \/ TwRead(p)
        \/ TwCached(p)
        \/ TwToken(p)
        \/ TwFresh(p)
        \/ TwSave(p)
        \/ TwWrite(p)
        \/ InvokePixiv(p)
        \/ Consume(p)
        \/ InvokeMoebooru(p)
        \/ InvokeZerochan(p)
        \/ Normalized(p)
        \/ Finish(p)

Spec == Init /\ [][Next]_vars

\* ---- the registry under arbitrary registrations

RegHandlers == {"f1", "f2"}

\* the arguments given to support_prefix: tuples of prefixes, or a bare str
RegArgs ==
    {TupleArg(<<"a">>), TupleArg(<<"ab">>), TupleArg(<<"b">>),
     TupleArg(<<"ab", "a">>), TupleArg(<<"a", "b">>), StrArg("ab"), StrArg("ba")}

\* @support_prefix(arg) applied to the function h: lines 49-55
Register(arg, h) ==
    /\ \A p \in Procs : pc[p] = "idle"
    /\ Len(regLog) + Len(Iterate(arg)) <= MaxAssign
    /\ MAPPING' = support_prefix(MAPPING, arg, h)
    /\ regLog' = regLog \o [i \in 1..Len(Iterate(arg)) |->
                               [prefix |-> Iterate(arg)[i], f |-> h]]
    /\ UNCHANGED <<hasIterable, fs, lastSaved, active, urlsIn, pc, url, cache_dir,
                   f, func_cache_dir, guest_token, content, rv, result, consumed,
                   invoked, ev>>

\* what a registered function may do: return an Image, return a list, raise
AnyOutcomes(u) ==
    {Return(AnImage(Image(<<>>, <<>>, u))), Return(AList(<<>>)),
     Raise(Exc("Exception", "f", <<>>))}

\* line 204 with f any registered function
InvokeAny(p) ==
    /\ pc[p] = "invoke"
    /\ f[p] \in RegHandlers
    /\ invoked' = [invoked EXCEPT ![p] = Append(@, f[p])]
    /\ \E out \in AnyOutcomes(url[p]) : Outcome(p, out)
    /\ UNCHANGED <<globals, fs, lastSaved, url, cache_dir, f, func_cache_dir,
                   guest_token, content, consumed, ev>>

RegInit ==
    InitWith(<<>>, {1}, "reg",
             {[dirs |-> {}, usable |-> TRUE, tok |-> AbsentTok]}, {TRUE})

RegNext ==
    \/ \E arg \in RegArgs, h \in RegHandlers : Register(arg, h)
    \/ \E p \in Procs :
        \/ Call(p)
        \/ Exists(p)
        \/ Mkdir(p)
        \/ InvokeAny(p)
        \/ Normalized(p)
        \/ Finish(p)

RegSpec == RegInit /\ [][RegNext]_vars

\* ---- two processes that resolve tweets with the same cache root

ConcFs ==
    {[dirs |-> {}, usable |-> TRUE, tok |-> AbsentTok],
     [dirs |-> {FuncDir(Root, twitter)}, usable |-> TRUE,
      tok |-> TokFile("file", TRUE, TRUE, <<"7", "7">>)]}

ConcInit == InitWith(ModuleMapping, {1, 2}, "twitter", ConcFs, {TRUE})

ConcNext ==
    \E p \in Procs :
        \/ Call(p)
        \/ Exists(p)
        \/ Mkdir(p)
        \/ InvokeTwitter(p)
        \/ TwRead(p)
        \/ TwCached(p)
        \/ TwToken(p)
        \/ TwFresh(p)
        \/ TwSave(p)
        \/ TwWrite(p)
        \/ Normalized(p)
        \/ Finish(p)

ConcSpec == ConcInit /\ [][ConcNext]_vars

\* ------------------------------------------------------------------ properties

\* the prefixes of the supported sites
SitePrefixes ==
    {<<P_twitter, twitter>>, <<P_pixiv_www, pixiv>>, <<P_pixiv, pixiv>>,
     <<P_konachan_net_s, moebooru>>, <<P_konachan_net, moebooru>>,
     <<P_konachan_com_s, moebooru>>, <<P_konachan_com, moebooru>>,
     <<P_yandere, moebooru>>, <<P_zerochan, zerochan>>}

SupportedUrl(u) == \E sp \in SitePrefixes : StartsWith(u, sp[1])

InCall(p) == pc[p] # "idle"

\* the positions of a call at which the strategy has been invoked and the call
\* has not ended
AfterInvoke ==
    {"tw_read", "tw_cached", "tw_token", "tw_fresh", "tw_save", "tw_write", "normalize"}

\* C1: a call whose URL begins with none of the supported sites' prefixes ends
\* with ValueError "Unsupported url: <url>", invokes no strategy and fetches
\* nothing.
C1_UnsupportedUrlRaises ==
    \A p \in Procs :
        (InCall(p) /\ ~SupportedUrl(url[p])) =>
            /\ invoked[p] = <<>>
            /\ ev[p] = <<>>
            /\ pc[p] = "done" =>
                  result[p] = Raise(Exc("ValueError", "Unsupported url: ", <<url[p]>>))

\* C3: a URL that begins with a supported site's prefix is dispatched to that
\* site's strategy, whichever registered variant of the prefix it begins with:
\* that strategy is the one picked, no other is invoked, and it has been
\* invoked once the call is past line 204 or returns.
C3_SupportedUrlReachesOwnStrategy ==
    \A p \in Procs : \A sp \in SitePrefixes :
        (InCall(p) /\ StartsWith(url[p], sp[1])) =>
            /\ f[p] = sp[2]
            /\ invoked[p] \in {<<>>, <<sp[2]>>}
            /\ (pc[p] \in AfterInvoke \/ result[p].kind = "return") =>
                  invoked[p] = <<sp[2]>>

C3_Witness ==
    /\ pc[1] = "done"
    /\ url[1] = U_zerochan
    /\ result[1].kind = "return"
    /\ invoked[1] = <<zerochan>>

IsImage(x) == DOMAIN x = {"url", "filename", "origin"}

\* C4: what get_image_data returns is a sequence of Image records, never a bare
\* Image: the Image of moebooru or zerochan comes back as a list of exactly
\* that one Image, the list of twitter and the generator of pixiv come back
\* unchanged.
C4_ResultIsSequence ==
    \A p \in Procs :
        result[p].kind = "return" =>
            /\ result[p].value.type \in {"list", "generator"}
            /\ \A i \in 1..Len(result[p].value.items) :
                  IsImage(result[p].value.items[i])
            /\ f[p] \in {moebooru, zerochan} =>
                  /\ rv[p].type = "Image"
                  /\ result[p].value.type = "list"
                  /\ Len(result[p].value.items) = 1
                  /\ result[p].value.items[1] = rv[p].items[1]
            /\ f[p] \in {twitter, pixiv} => result[p].value = rv[p]

C4_Witness ==
    /\ pc[1] = "done"
    /\ f[1] = moebooru
    /\ rv[1].type = "Image"
    /\ result[1] = Return(AList(<<MoebooruImage(H2, url[1])>>))

\* C5: every Image of the sequence get_image_data(url) returned, and every
\* Image a returned generator yields, has origin = url.
C5_OriginIsUrl ==
    \A p \in Procs :
        /\ result[p].kind = "return" =>
              \A i \in 1..Len(result[p].value.items) :
                  result[p].value.items[i].origin = url[p]
        /\ consumed[p].kind = "return" =>
              \A i \in 1..Len(consumed[p].value.items) :
                  consumed[p].value.items[i].origin = url[p]

C5_Witness ==
    /\ pc[1] = "done"
    /\ f[1] = twitter
    /\ result[1].kind = "return"
    /\ Len(result[1].value.items) = 2
    /\ \E i \in 1..Len(ev[1]) : ev[1][i].op = "api_cached" /\ ev[1][i].ok
    /\ result[1].value.items[1].origin = U_tweet
    /\ result[1].value.items[2].origin = U_tweet

\* the events of process p's call with operation op
Events(p, op) == {i \in 1..Len(ev[p]) : ev[p][i].op = op}

\* the exception types a twitter call without a cache root can end with
NoCacheExcTypes == {"ValueError", "Exception", "KeyError", "AttributeError"}

\* C6: the cache is best-effort: whatever the state of the guest_token file,
\* the twitter strategy called with a cache root ends as it can end without
\* one; no problem of the cache makes get_image_data raise.
C6_CacheNeverFatal ==
    \A p \in Procs :
        (/\ invoked[p] = <<twitter>>
         /\ ~cache_dir[p].none
         /\ result[p].kind = "raise") =>
            result[p].exc.type \in NoCacheExcTypes

\* C7 as stated: a twitter call with a cache root that acquired a fresh
\* credential ends with the guest_token file holding exactly that credential,
\* and the next call's cache read returns the credential last saved.
C7_FreshTokenAlwaysPersisted ==
    \A p \in Procs :
        /\ (/\ pc[p] = "done"
            /\ ~cache_dir[p].none
            /\ \E i \in Events(p, "token") : ev[p][i].ok) =>
                /\ fs.tok.kind = "file"
                /\ fs.tok.data = guest_token[p].s
        /\ (/\ Len(ev[p]) = 1
            /\ ev[p][1].op = "read"
            /\ ~lastSaved.none) =>
                guest_token[p] = lastSaved

HasCR(s) == \E i \in 1..Len(s) : s[i] = CR

\* C7 amended: when the metadata call with the fresh credential succeeded and
\* the guest_token file could be opened for writing, the file holds exactly
\* the fresh credential from the write to the end of the call; and the next
\* call's cache read returns the credential last saved, provided the file is
\* readable and the credential contains no carriage return.
C7_FreshTokenPersistedOnSuccess ==
    \A p \in Procs :
        /\ (/\ pc[p] \in {"normalize", "done"}
            /\ ~cache_dir[p].none
            /\ \E i \in Events(p, "api_fresh") : ev[p][i].ok
            /\ \A i \in Events(p, "open") : ev[p][i].ok) =>
                /\ fs.tok.kind = "file"
                /\ fs.tok.data = guest_token[p].s
                /\ lastSaved = guest_token[p]
        /\ (/\ Len(ev[p]) = 1
            /\ ev[p][1].op = "read"
            /\ ~lastSaved.none
            /\ fs.tok.r
            /\ ~HasCR(lastSaved.s)) =>
                guest_token[p] = lastSaved

C7_Witness ==
    /\ pc[1] = "tw_cached"
    /\ ~lastSaved.none
    /\ guest_token[1] = lastSaved
    /\ fs.tok.data = lastSaved.s
    /\ ev[1] = <<Event("read", lastSaved.s, TRUE)>>

\* C8: the credential protocol of one twitter call: a cached credential is
\* tried exactly when a non-empty one was read, and then first;
\* get_guest_token is called at most once, and only if no credential was read
\* from the cache or the attempt with it raised; the metadata API is called at
\* most twice; a failure with the fresh credential ends the call with that
\* exception; after a success with the cached credential nothing is acquired
\* and the file is not written.
C8_CredentialProtocol ==
    \A p \in Procs :
        LET e == ev[p]
            n == Len(ev[p])
            ReadGave(i) == e[i].op = "read" /\ e[i].ok /\ e[i].tok # <<>>
        IN  f[p] = twitter =>
            /\ \A i \in 1..n : ReadGave(i) =>
                  /\ i = 1
                  /\ n = 1 => pc[p] = "tw_cached"
                  /\ n > 1 => e[2] = Event("api_cached", e[1].tok, e[2].ok)
            /\ \A i \in Events(p, "api_cached") : i = 2 /\ ReadGave(1)
            /\ Cardinality(Events(p, "token")) <= 1
            /\ \A i \in Events(p, "token") :
                  \/ \A j \in 1..(i - 1) : ~ReadGave(j)
                  \/ \E j \in 1..(i - 1) : e[j].op = "api_cached" /\ ~e[j].ok
            /\ Cardinality(Events(p, "api_cached") \cup Events(p, "api_fresh")) <= 2
            /\ \A i \in Events(p, "api_fresh") : ~e[i].ok =>
                  /\ i = n
                  /\ pc[p] = "done"
                  /\ result[p] =
                        Raise(Exc("KeyError", "_try_download_with_guest_token", <<>>))
            /\ \A i \in Events(p, "api_cached") : e[i].ok =>
                  /\ i = n
                  /\ Events(p, "token") = {}
                  /\ Events(p, "open") \cup Events(p, "write") = {}
                  /\ pc[p] \in {"normalize", "done"}

C8_Witness ==
    /\ pc[1] = "done"
    /\ result[1].kind = "return"
    /\ Len(ev[1]) = 6
    /\ ev[1][1] = Event("read", <<"7", "7">>, TRUE)
    /\ ev[1][2] = Event("api_cached", <<"7", "7">>, FALSE)
    /\ ev[1][3] = Event("token", <<"1">>, TRUE)
    /\ ev[1][4] = Event("api_fresh", <<"1">>, TRUE)
    /\ ev[1][5].op = "open"
    /\ ev[1][6].op = "write"

\* C9: the moebooru strategy uses the href of the a.highres-show element when
\* there is one, falls back to the file_url of the Post.register(...) JSON in
\* every case where the element gives no link target, and fails only when
\* both paths are exhausted, with an error naming the source URL.
C9_MoebooruFallback ==
    \A p \in Procs :
        (f[p] = moebooru /\ content[p].fetched) =>
            /\ content[p].anchor = "href" =>
                  rv[p] = AnImage(MoebooruImage(content[p].href, url[p]))
            /\ (content[p].anchor # "href" /\ content[p].register = "file_url") =>
                  rv[p] = AnImage(MoebooruImage(content[p].file_url, url[p]))
            /\ (result[p].kind = "raise" /\ result[p].exc.type # "AttributeError") =>
                  /\ content[p].anchor # "href"
                  /\ content[p].register # "file_url"
                  /\ result[p].exc.arg = <<url[p]>>

\* the first assignment of the registration history whose prefix u starts with
FirstMatch(u) ==
    IF \E i \in 1..Len(regLog) : StartsWith(u, regLog[i].prefix)
    THEN CHOOSE i \in 1..Len(regLog) :
            /\ StartsWith(u, regLog[i].prefix)
            /\ \A j \in 1..(i - 1) : ~StartsWith(u, regLog[j].prefix)
    ELSE 0

\* the last assignment made to the prefix of assignment i
LastOf(i) ==
    CHOOSE j \in i..Len(regLog) :
        /\ regLog[j].prefix = regLog[i].prefix
        /\ \A k \in (j + 1)..Len(regLog) : regLog[k].prefix # regLog[i].prefix

\* process p's call picks handler h, invokes no other, and has invoked it once
\* it is past line 204 or returns
DispatchedTo(p, h) ==
    /\ f[p] = h
    /\ invoked[p] \in {<<>>, <<h>>}
    /\ (pc[p] \in AfterInvoke \/ result[p].kind = "return") => invoked[p] = <<h>>

\* process p's call invokes handler h and no other
InvokesOnly(p, h) ==
    /\ invoked[p] \in {<<>>, <<h>>}
    /\ (pc[p] \in AfterInvoke \/ result[p].kind = "return") => invoked[p] = <<h>>

\* C2 as stated: the one strategy get_image_data invokes is the handler that
\* was registered together with the earliest-registered prefix the URL starts
\* with.
C2_FirstRegisteredHandler ==
    \A p \in Procs :
        (InCall(p) /\ FirstMatch(url[p]) # 0) =>
            InvokesOnly(p, regLog[FirstMatch(url[p])].f)

\* C2 amended: the one strategy get_image_data invokes is the handler most
\* recently registered for the earliest-registered prefix the URL starts
\* with; a prefix registered again keeps its place and takes the new handler,
\* and a later-registered other prefix that also matches is never used.
C2_LatestHandlerOfFirstPrefix ==
    \A p \in Procs :
        /\ (InCall(p) /\ FirstMatch(url[p]) # 0) =>
              DispatchedTo(p, regLog[LastOf(FirstMatch(url[p]))].f)
        /\ (InCall(p) /\ FirstMatch(url[p]) = 0) =>
              invoked[p] = <<>>

C2_Witness ==
    /\ regLog = <<[prefix |-> "a", f |-> "f1"], [prefix |-> "ab", f |-> "f1"],
                  [prefix |-> "a", f |-> "f2"]>>
    /\ url[1] = "ab"
    /\ pc[1] = "done"
    /\ result[1].kind = "return"
    /\ invoked[1] = <<"f2">>

\* C10: two processes that run get_image_data for the twitter strategy with
\* the same cache root race on the guest_token file only: no call fails
\* because of the other process, and once both have finished the file holds
\* the credential of the last writer.
C10_OnlyTheTokenFileRaces ==
    /\ \A p \in Procs :
          result[p].kind = "raise" => result[p].exc.type # "FileExistsError"
    /\ ((\A p \in Procs : pc[p] \in {"idle", "done"}) /\ ~lastSaved.none) =>
          fs.tok.data = lastSaved.s

====
